---------------------------- MODULE Spec2Model ----------------------------
(***************************************************************************)
(* Runbook AI CORS proxy (src/proxy/server.js): the per-request pipeline   *)
(* of the http.createServer handler, with the WHATWG URL parsing, the      *)
(* query-string lookup, the header sanitization and the fetch() dispatch   *)
(* it relies on.                                                           *)
(*                                                                         *)
(* Strings that the code only compares or copies (origins, header names    *)
(* and values, methods) are TLA+ strings.  Strings that the code parses    *)
(* (req.url and the ?url= target) are sequences of one-character strings,  *)
(* so that parsing is computed.                                            *)
(*                                                                         *)
(* Spec runs one request through the pipeline, SpecConc interleaves the    *)
(* handlers of several requests, and SpecSettings is the settings          *)
(* persistence of the agent page (src/agent/js/settings.js).               *)
(***************************************************************************)
EXTENDS Integers, Sequences, FiniteSets, TLC

(***************************************************************************)
(* Character and sequence helpers                                          *)
(***************************************************************************)
UpperSeq == <<"A","B","C","D","E","F","G","H","I","J","K","L","M",
              "N","O","P","Q","R","S","T","U","V","W","X","Y","Z">>
LowerSeq == <<"a","b","c","d","e","f","g","h","i","j","k","l","m",
              "n","o","p","q","r","s","t","u","v","w","x","y","z">>
DigitSeq == <<"0","1","2","3","4","5","6","7","8","9">>

Range(s) == {s[i] : i \in DOMAIN s}

UpperChars == Range(UpperSeq)
AlphaChars == Range(UpperSeq) \cup Range(LowerSeq)
DigitChars == Range(DigitSeq)

IsAlpha(c) == c \in AlphaChars
IsDigit(c) == c \in DigitChars

\* The lower-case letter of each upper-case letter.
LowerOf == [c \in UpperChars |->
             LowerSeq[CHOOSE i \in DOMAIN UpperSeq : UpperSeq[i] = c]]

\* String.prototype.toLowerCase on one ASCII character.
ToLowerChar(c) == IF c \in UpperChars THEN LowerOf[c] ELSE c

ToLowerSeq(s) == [i \in DOMAIN s |-> ToLowerChar(s[i])]

\* Index of the first element of s that is in set S, 0 when there is none.
RECURSIVE IndexFrom(_, _, _)
IndexFrom(s, S, i) ==
  IF i > Len(s) THEN 0
  ELSE IF s[i] \in S THEN i
  ELSE IndexFrom(s, S, i + 1)

IndexOf(s, S) == IndexFrom(s, S, 1)

\* Index of the last element of s that is in set S, 0 when there is none.
LastIndexOf(s, S) ==
  IF \E i \in DOMAIN s : s[i] \in S
  THEN CHOOSE i \in DOMAIN s : s[i] \in S /\ \A j \in (i+1)..Len(s) : s[j] \notin S
  ELSE 0

\* s from index i to its end (empty when i is past the end).
From(s, i) == SubSeq(s, i, Len(s))

\* s before index i.
Before(s, i) == SubSeq(s, 1, i - 1)

\* The pieces of s between occurrences of the separator character.
RECURSIVE Split(_, _)
Split(s, sep) ==
  LET i == IndexOf(s, {sep})
  IN  IF i = 0 THEN <<s>>
      ELSE <<Before(s, i)>> \o Split(From(s, i + 1), sep)

\* Leading and trailing spaces removed (the URL parser strips them first).
RECURSIVE TrimLeft(_)
TrimLeft(s) == IF s # <<>> /\ s[1] = " " THEN TrimLeft(Tail(s)) ELSE s

RECURSIVE TrimRight(_)
TrimRight(s) ==
  IF s # <<>> /\ s[Len(s)] = " " THEN TrimRight(Before(s, Len(s))) ELSE s

Trim(s) == TrimRight(TrimLeft(s))

\* Leading slashes and backslashes removed ("special authority ignore
\* slashes" state of the URL parser).
RECURSIVE SkipSlashes(_)
SkipSlashes(s) ==
  IF s # <<>> /\ s[1] \in {"/", "\\"} THEN SkipSlashes(Tail(s)) ELSE s

(***************************************************************************)
(* new URL(input[, base])                                                  *)
(***************************************************************************)
SpecialSchemes == { <<"h","t","t","p">>, <<"h","t","t","p","s">>,
                    <<"f","t","p">>, <<"w","s">>, <<"w","s","s">>,
                    <<"f","i","l","e">> }

FileScheme == <<"f","i","l","e">>

\* Code points a host may not contain.
ForbiddenHostChars == {" ", "#", "/", ":", "<", ">", "?", "@", "[", "\\",
                       "]", "^", "|", "%"}

IsSchemeChar(c) == IsAlpha(c) \/ IsDigit(c) \/ c \in {"+", "-", "."}

\* Length of the scheme s starts with (an ASCII letter, then scheme
\* characters, then ":"), 0 when s starts with no scheme.
SchemeLen(s) ==
  LET Check(colon) ==
        IF /\ colon > 1
           /\ IsAlpha(s[1])
           /\ \A i \in 2..(colon - 1) : IsSchemeChar(s[i])
        THEN colon - 1
        ELSE 0
  IN  Check(IndexOf(s, {":"}))

\* s without its fragment: what precedes the first "#".
NoFragment(s) ==
  LET Cut(hash) == IF hash = 0 THEN s ELSE Before(s, hash)
  IN  Cut(IndexOf(s, {"#"}))

\* The query of a path-query-fragment string: what follows the first "?"
\* and precedes the first "#"; present tells whether there is a "?".
QueryOf(pqf) ==
  LET After(noFrag, q) ==
        IF q = 0 THEN [present |-> FALSE, text |-> <<>>]
        ELSE [present |-> TRUE, text |-> From(noFrag, q + 1)]
      Find(noFrag) == After(noFrag, IndexOf(noFrag, {"?"}))
  IN  Find(NoFragment(pqf))

FailedURL == [ok |-> FALSE, scheme |-> <<>>, userinfo |-> <<>>, host |-> <<>>,
              port |-> <<>>, pqf |-> <<>>]

DefaultPort(scheme) ==
  IF scheme = <<"h","t","t","p">> THEN <<"8","0">>
  ELSE IF scheme = <<"h","t","t","p","s">> THEN <<"4","4","3">>
  ELSE IF scheme = <<"f","t","p">> THEN <<"2","1">>
  ELSE <<>>

\* Authority state and host state for a special scheme: afterSlashes is the
\* input after the scheme and the slashes.  Fails on an empty host, a host
\* with a forbidden code point, or a port that is not a number.
ParseAuthority(scheme, afterSlashes) ==
  LET Make(userinfo, host, port, pqf) ==
        IF \/ host = <<>>
           \/ \E i \in DOMAIN host : host[i] \in ForbiddenHostChars
           \/ \E i \in DOMAIN port : ~IsDigit(port[i])
        THEN FailedURL
        ELSE [ok |-> TRUE, scheme |-> scheme, userinfo |-> userinfo,
              host |-> ToLowerSeq(host),
              port |-> IF port = DefaultPort(scheme) THEN <<>> ELSE port,
              pqf |-> pqf]
      SplitPort(userinfo, hostport, pqf, colon) ==
        Make(userinfo,
             IF colon = 0 THEN hostport ELSE Before(hostport, colon),
             IF colon = 0 THEN <<>> ELSE From(hostport, colon + 1),
             pqf)
      FindPort(userinfo, hostport, pqf) ==
        SplitPort(userinfo, hostport, pqf, IndexOf(hostport, {":"}))
      SplitUserinfo(auth, pqf, at) ==
        FindPort(IF at = 0 THEN <<>> ELSE Before(auth, at),
                 IF at = 0 THEN auth ELSE From(auth, at + 1),
                 pqf)
      FindUserinfo(auth, pqf) ==
        SplitUserinfo(auth, pqf, LastIndexOf(auth, {"@"}))
      SplitAuthority(stop) ==
        FindUserinfo(IF stop = 0 THEN afterSlashes ELSE Before(afterSlashes, stop),
                     IF stop = 0 THEN <<>> ELSE From(afterSlashes, stop))
  IN  SplitAuthority(IndexOf(afterSlashes, {"/", "\\", "?", "#"}))

\* new URL(input) when base is <<>>, new URL(input, base) otherwise; base is
\* the record of an http URL.  ok = FALSE stands for the TypeError thrown.
ParseURL(input, base) ==
  LET WithScheme(scheme, rest) ==
        IF scheme \in SpecialSchemes \ {FileScheme}
        THEN IF /\ base # <<>>
                /\ scheme = base.scheme
                /\ ~(Len(rest) >= 2 /\ rest[1] = "/" /\ rest[2] = "/")
             \* "special relative or authority": resolved against base
             THEN [base EXCEPT !.pqf = rest]
             ELSE ParseAuthority(scheme, SkipSlashes(rest))
        \* file: and non-special schemes parse with any remainder
        ELSE [ok |-> TRUE, scheme |-> scheme, userinfo |-> <<>>,
              host |-> <<>>, port |-> <<>>, pqf |-> rest]
      NoScheme(s) ==
        IF base = <<>>
        THEN FailedURL   \* relative reference without a base
        ELSE IF /\ Len(s) >= 2
                /\ s[1] \in {"/", "\\"}
                /\ s[2] \in {"/", "\\"}
             \* scheme-relative: "//" starts an authority
             THEN ParseAuthority(base.scheme, SkipSlashes(s))
             ELSE [base EXCEPT !.pqf = s]
      Start(s, n) ==
        IF n > 0
        THEN WithScheme(ToLowerSeq(Before(s, n + 1)), From(s, n + 2))
        ELSE NoScheme(s)
      Trimmed(s) == Start(s, SchemeLen(s))
  IN  Trimmed(Trim(input))

\* URL.protocol: the scheme followed by ":".
Protocol(u) == u.scheme \o <<":">>

\* URL.toString() / href of a parsed special URL.
Href(u) ==
  u.scheme \o <<":","/","/">>
  \o (IF u.userinfo = <<>> THEN <<>> ELSE u.userinfo \o <<"@">>)
  \o u.host
  \o (IF u.port = <<>> THEN <<>> ELSE <<":">> \o u.port)
  \o (IF u.pqf = <<>> \/ u.pqf[1] \in {"?", "#"} THEN <<"/">> ELSE <<>>)
  \o [i \in DOMAIN u.pqf |-> IF u.pqf[i] = "\\" /\ ~(\E j \in 1..i : u.pqf[j] \in {"?", "#"})
                             THEN "/" ELSE u.pqf[i]]

(***************************************************************************)
(* URLSearchParams                                                         *)
(***************************************************************************)
\* The percent escapes of the characters a target URL is written with.
PercentTable == [ e \in { <<"3","A">>, <<"3","a">>, <<"2","F">>, <<"2","f">>,
                           <<"3","F">>, <<"3","f">>, <<"3","D">>, <<"3","d">>,
                           <<"2","6">>, <<"2","0">> } |->
                  CASE ToLowerSeq(e) = <<"3","a">> -> ":"
                    [] ToLowerSeq(e) = <<"2","f">> -> "/"
                    [] ToLowerSeq(e) = <<"3","f">> -> "?"
                    [] ToLowerSeq(e) = <<"3","d">> -> "="
                    [] e = <<"2","6">> -> "&"
                    [] OTHER -> " " ]

\* application/x-www-form-urlencoded decoding: "+" is a space, %XY the
\* escaped character, anything else itself.
RECURSIVE FormDecode(_)
FormDecode(s) ==
  IF s = <<>> THEN <<>>
  ELSE IF s[1] = "+" THEN <<" ">> \o FormDecode(Tail(s))
  ELSE IF s[1] = "%" /\ Len(s) >= 3 /\ <<s[2], s[3]>> \in DOMAIN PercentTable
       THEN <<PercentTable[<<s[2], s[3]>>]>> \o FormDecode(From(s, 4))
  ELSE <<s[1]>> \o FormDecode(Tail(s))

\* One name/value pair: the piece split at its first "=", both sides decoded.
ParsePair(piece) ==
  LET At(eq) ==
        IF eq = 0
        THEN [name |-> FormDecode(piece), value |-> <<>>]
        ELSE [name |-> FormDecode(Before(piece, eq)),
              value |-> FormDecode(From(piece, eq + 1))]
  IN  At(IndexOf(piece, {"="}))

\* The name/value pairs of a query string: split at "&", empty pieces
\* dropped.
ParseQuery(text) ==
  LET Pairs(pieces) == [i \in DOMAIN pieces |-> ParsePair(pieces[i])]
  IN  Pairs(SelectSeq(Split(text, "&"), LAMBDA p : p # <<>>))

\* searchParams.get(name): the value of the first pair with that name;
\* found = FALSE stands for null.
SearchParamsGet(u, name) ==
  LET First(pairs, hit) ==
        IF hit = {} THEN [found |-> FALSE, value |-> <<>>]
        ELSE [found |-> TRUE,
              value |-> pairs[CHOOSE i \in hit : \A j \in hit : i <= j].value]
      Lookup(pairs) == First(pairs, {i \in DOMAIN pairs : pairs[i].name = name})
      OfQuery(q) == Lookup(IF q.present THEN ParseQuery(q.text) ELSE <<>>)
  IN  OfQuery(QueryOf(u.pqf))

(***************************************************************************)
(* Configuration (server.js lines 21-40, 116-119)                          *)
(***************************************************************************)
\* process.env.PORT || '8082'
PORT == <<"8","0","8","2">>

ALLOWED_ORIGINS == { "http://localhost:9003",
                     "https://runbookai.net",
                     "https://www.runbookai.net" }

HOP_BY_HOP == {
  <<"c","o","n","n","e","c","t","i","o","n">>,
  <<"k","e","e","p","-","a","l","i","v","e">>,
  <<"p","r","o","x","y","-","a","u","t","h","e","n","t","i","c","a","t","e">>,
  <<"p","r","o","x","y","-","a","u","t","h","o","r","i","z","a","t","i","o","n">>,
  <<"t","e">>,
  <<"t","r","a","i","l","e","r","s">>,
  <<"t","r","a","n","s","f","e","r","-","e","n","c","o","d","i","n","g">>,
  <<"u","p","g","r","a","d","e">>,
  <<"h","o","s","t">>,
  <<"o","r","i","g","i","n">>,
  <<"r","e","f","e","r","e","r">>,
  <<"c","o","o","k","i","e">> }

BROWSER_ONLY == {
  <<"u","s","e","r","-","a","g","e","n","t">>,
  <<"a","c","c","e","p","t">>,
  <<"a","c","c","e","p","t","-","l","a","n","g","u","a","g","e">>,
  <<"a","c","c","e","p","t","-","e","n","c","o","d","i","n","g">>,
  <<"c","a","c","h","e","-","c","o","n","t","r","o","l">>,
  <<"p","r","a","g","m","a">> }

SEC_PREFIX == <<"s","e","c","-">>

PROXY_USER_AGENT == "runbook-ai-proxy/1.0"

URL_PARAM == <<"u","r","l">>

HTTP_PROTOCOLS == { <<"h","t","t","p",":">>, <<"h","t","t","p","s",":">> }

\* `http://localhost:${PORT}`, the base req.url is resolved against.
BaseURL ==
  ParseURL(<<"h","t","t","p",":","/","/","l","o","c","a","l","h","o","s","t",":">> \o PORT,
           <<>>)

(***************************************************************************)
(* JavaScript values                                                       *)
(***************************************************************************)
\* A value that may be undefined/null: present = FALSE stands for both.
Undefined == [present |-> FALSE, value |-> ""]
Defined(v) == [present |-> TRUE, value |-> v]

\* obj[key] on a header map.
HeaderGet(headers, key) ==
  IF key \in DOMAIN headers THEN Defined(headers[key]) ELSE Undefined

\* x || d: undefined, null and the empty string are falsy.
JsOr(x, d) == IF x.present /\ x.value # "" THEN x.value ELSE d

EmptyMap == [k \in {} |-> ""]

\* The characters of the header names a request may carry.
NameChars ==
  ("origin" :> <<"o","r","i","g","i","n">>) @@
  ("access-control-request-headers" :> <<"a","c","c","e","s","s","-","c","o","n","t","r","o","l","-","r","e","q","u","e","s","t","-","h","e","a","d","e","r","s">>) @@
  ("host" :> <<"h","o","s","t">>) @@
  ("cookie" :> <<"c","o","o","k","i","e">>) @@
  ("connection" :> <<"c","o","n","n","e","c","t","i","o","n">>) @@
  ("user-agent" :> <<"u","s","e","r","-","a","g","e","n","t">>) @@
  ("accept" :> <<"a","c","c","e","p","t">>) @@
  ("sec-fetch-mode" :> <<"s","e","c","-","f","e","t","c","h","-","m","o","d","e">>) @@
  ("authorization" :> <<"a","u","t","h","o","r","i","z","a","t","i","o","n">>) @@
  ("content-type" :> <<"c","o","n","t","e","n","t","-","t","y","p","e">>) @@
  ("accept-charset" :> <<"a","c","c","e","p","t","-","c","h","a","r","s","e","t">>)

\* key.toLowerCase()
LowerName(key) == ToLowerSeq(NameChars[key])

\* s.startsWith(prefix)
StartsWith(s, prefix) ==
  Len(s) >= Len(prefix) /\ SubSeq(s, 1, Len(prefix)) = prefix

\* JSON.stringify of an object whose members are strings, as the tokens of
\* the text; a member whose value is undefined is left out.
RECURSIVE JsonMembers(_, _)
JsonMembers(members, first) ==
  IF members = <<>> THEN <<>>
  ELSE LET m == members[1]
       IN  IF ~m.value.present THEN JsonMembers(Tail(members), first)
           ELSE (IF first THEN <<>> ELSE <<",">>)
                \o <<"\"", m.key, "\"", ":", "\"", m.value.value, "\"">>
                \o JsonMembers(Tail(members), FALSE)

JsonStringify(members) == <<"{">> \o JsonMembers(members, TRUE) \o <<"}">>

\* Buffer.concat(chunks)
RECURSIVE BufferConcat(_)
BufferConcat(chunks) ==
  IF chunks = <<>> THEN <<>> ELSE chunks[1] \o BufferConcat(Tail(chunks))

(***************************************************************************)
(* Responses: res.writeHead(status, headers); res.end(body)                *)
(***************************************************************************)
NoBody == [kind |-> "none", text |-> <<>>, bytes |-> <<>>]
TextBody(tokens) == [kind |-> "text", text |-> tokens, bytes |-> <<>>]
BytesBody(b) == [kind |-> "bytes", text |-> <<>>, bytes |-> b]

\* status 0: nothing written yet.
NoResponse == [status |-> 0, headers |-> EmptyMap, body |-> NoBody]

JSON_TYPE == "Content-Type" :> "application/json"

\* corsHeaders with a static Access-Control-Allow-Headers list.
corsHeaders_StaticAllowHeaders(origin, requestedHeaders) ==
  ("Access-Control-Allow-Origin" :> origin) @@
  ("Access-Control-Allow-Methods" :> "GET, POST, PUT, PATCH, DELETE, OPTIONS") @@
  ("Access-Control-Allow-Headers" :> "Authorization, Content-Type") @@
  ("Access-Control-Max-Age" :> "86400")

corsHeaders(origin, requestedHeaders) ==
  ("Access-Control-Allow-Origin" :> origin) @@
  ("Access-Control-Allow-Methods" :> "GET, POST, PUT, PATCH, DELETE, OPTIONS") @@
  ("Access-Control-Allow-Headers" :>
      JsOr(requestedHeaders, "Authorization, Content-Type")) @@
  ("Access-Control-Max-Age" :> "86400")

\* const origin = req.headers['origin'] || ''
OriginOf(q) == JsOr(HeaderGet(q.headers, "origin"), "")

\* The preflight answered without looking at the origin.
PreflightResponse_AnyOrigin(q) ==
  [status |-> 204,
   headers |-> corsHeaders(OriginOf(q),
                  HeaderGet(q.headers, "access-control-request-headers")),
   body |-> NoBody]

\* lines 69-78
PreflightResponse(q) ==
  IF OriginOf(q) \in ALLOWED_ORIGINS
  THEN [status |-> 204,
        headers |-> corsHeaders(OriginOf(q),
                       HeaderGet(q.headers, "access-control-request-headers")),
        body |-> NoBody]
  ELSE [status |-> 403, headers |-> EmptyMap, body |-> NoBody]

\* The origin rejection sent with a wildcard CORS header.
OriginRejectedResponse_WithCors ==
  [status |-> 403,
   headers |-> ("Access-Control-Allow-Origin" :> "*") @@ JSON_TYPE,
   body |-> TextBody(JsonStringify(
              << [key |-> "error", value |-> Defined("Origin not allowed")] >>))]

\* lines 81-85
OriginRejectedResponse ==
  [status |-> 403, headers |-> JSON_TYPE,
   body |-> TextBody(JsonStringify(
              << [key |-> "error", value |-> Defined("Origin not allowed")] >>))]

\* lines 92-93
MissingTargetResponse(q) ==
  [status |-> 400, headers |-> corsHeaders(OriginOf(q), Undefined) @@ JSON_TYPE,
   body |-> TextBody(JsonStringify(
              << [key |-> "error", value |-> Defined("Missing ?url= parameter")] >>))]

\* lines 105-106
InvalidTargetResponse(q) ==
  [status |-> 400, headers |-> corsHeaders(OriginOf(q), Undefined) @@ JSON_TYPE,
   body |-> TextBody(JsonStringify(
              << [key |-> "error", value |-> Defined("Invalid target URL")] >>))]

\* lines 150-155; message is err.message
UpstreamErrorResponse(q, message) ==
  [status |-> 502, headers |-> corsHeaders(OriginOf(q), Undefined) @@ JSON_TYPE,
   body |-> TextBody(JsonStringify(
              << [key |-> "error", value |-> Defined("Upstream error")],
                 [key |-> "message", value |-> message] >>))]

\* The upstream's body relayed under a fixed 200.
RelayResponse_AlwaysOk(q, up, bytes) ==
  [status |-> 200,
   headers |-> corsHeaders(OriginOf(q), Undefined) @@
               ("Content-Type" :> JsOr(up.contentType, "application/json")),
   body |-> BytesBody(bytes)]

\* lines 141-147
RelayResponse(q, up, bytes) ==
  [status |-> up.status,
   headers |-> corsHeaders(OriginOf(q), Undefined) @@
               ("Content-Type" :> JsOr(up.contentType, "application/json")),
   body |-> BytesBody(bytes)]

(***************************************************************************)
(* Target resolution (lines 88-108)                                        *)
(***************************************************************************)
\* new URL(req.url || '/', `http://localhost:${PORT}`)
ReqUrl(q) == ParseURL(IF q.url = <<>> THEN <<"/">> ELSE q.url, BaseURL)

\* reqUrl.searchParams.get('url')
TargetUrl(q) == SearchParamsGet(ReqUrl(q), URL_PARAM)

\* !targetUrl
TargetMissing(q) ==
  LET Falsy(t) == ~t.found \/ t.value = <<>>
  IN  Falsy(TargetUrl(q))

\* The target parsed without the protocol check of line 101.
ParsedTarget_AnyProtocol(q) == ParseURL(TargetUrl(q).value, <<>>)

\* new URL(targetUrl), with the protocol check of line 101: ok = FALSE when
\* either throws.
ParsedTarget(q) ==
  LET Checked(u) == IF u.ok /\ Protocol(u) \in HTTP_PROTOCOLS THEN u ELSE FailedURL
  IN  Checked(ParseURL(TargetUrl(q).value, <<>>))

(***************************************************************************)
(* Header sanitization (lines 116-131)                                     *)
(***************************************************************************)
\* Only the hop-by-hop set is consulted.
ShouldForward_HopByHopOnly(key) == LowerName(key) \notin HOP_BY_HOP

\* authorization is treated like proxy-authorization.
ShouldForward_StripsAuthorization(key) ==
  LET Unclassified(lower) ==
        /\ lower \notin HOP_BY_HOP \cup {LowerName("authorization")}
        /\ lower \notin BROWSER_ONLY
        /\ ~StartsWith(lower, SEC_PREFIX)
  IN  Unclassified(LowerName(key))

ShouldForward(key) ==
  LET Unclassified(lower) ==
        /\ lower \notin HOP_BY_HOP
        /\ lower \notin BROWSER_ONLY
        /\ ~StartsWith(lower, SEC_PREFIX)
  IN  Unclassified(LowerName(key))

ForwardHeaders(headers) ==
  ("user-agent" :> PROXY_USER_AGENT) @@
  [k \in {k \in DOMAIN headers : ShouldForward(k)} |-> headers[k]]

(***************************************************************************)
(* fetch(url, {method, headers, body}) (lines 134-140)                     *)
(***************************************************************************)
\* Methods fetch refuses to send.
FORBIDDEN_METHODS == {"CONNECT", "TRACE", "TRACK"}

\* The arguments of the fetch call of lines 134-138; hasBody = FALSE stands
\* for body: undefined.
FetchInit(q, body) ==
  [url     |-> Href(ParsedTarget(q)),
   method  |-> q.method,
   headers |-> ForwardHeaders(q.headers),
   hasBody |-> Len(body) > 0,
   body    |-> IF Len(body) > 0 THEN body ELSE <<>>]

\* The message of the TypeError fetch rejects with before anything is sent,
\* undefined when it goes on to send the request.
FetchRefusal(url, init) ==
  IF url.userinfo # <<>>
  THEN Defined("Request cannot be constructed from a URL that includes credentials")
  ELSE IF init.method \in FORBIDDEN_METHODS
  THEN Defined("HTTP method is unsupported.")
  ELSE IF init.hasBody /\ init.method \in {"GET", "HEAD"}
  THEN Defined("Request with GET/HEAD method cannot have body.")
  ELSE Undefined

\* err.message when fetch rejects with a network error (DNS, connection
\* refused, TLS), and when reading the upstream body breaks off.
FETCH_ERRORS == {"fetch failed"}
BODY_ERRORS == {"terminated"}

NoFetch == [called |-> FALSE, sent |-> FALSE, url |-> <<>>, method |-> "",
            headers |-> EmptyMap, hasBody |-> FALSE, body |-> <<>>]

\* What came back for a request: the status and Content-Type fetch resolved
\* with, the body once arrayBuffer() resolved (done), or the error either
\* rejected with.
NoUpstreamResponse ==
  [status |-> 0, contentType |-> Undefined, body |-> <<>>, done |-> FALSE,
   error |-> Undefined]

(***************************************************************************)
(* Inbound requests                                                        *)
(***************************************************************************)
\* Most headers a request carries besides Origin and
\* Access-Control-Request-Headers.
MaxHeaders == 2
\* Most chunks a request body arrives in.
MaxChunks == 2
\* Most requests in flight at once.
MaxInFlight == 2

Requests == 1..MaxInFlight

METHODS == {"OPTIONS", "GET", "POST", "TRACE"}

\* Values of the Origin header: the allowlisted ones, none, and ones that
\* differ from an allowlisted one by case, trailing slash, scheme or port.
ORIGINS == { "http://localhost:9003", "https://runbookai.net",
             "HTTPS://RUNBOOKAI.NET", "https://runbookai.net/",
             "http://runbookai.net", "https://runbookai.net:443",
             "https://evil.example" }

OriginMaps == {EmptyMap} \cup {("origin" :> o) : o \in ORIGINS}

RequestedHeadersMaps ==
  {EmptyMap} \cup
  {("access-control-request-headers" :> v) : v \in {"", "authorization, x-custom"}}

OTHER_HEADERS == {"host", "cookie", "connection", "user-agent", "accept",
                  "sec-fetch-mode", "authorization", "content-type",
                  "accept-charset"}

HeaderValues(name) ==
  IF name = "user-agent" THEN {"Mozilla/5.0", PROXY_USER_AGENT}
  ELSE IF name = "authorization" THEN {"Bot token"}
  ELSE IF name = "content-type" THEN {"application/json"}
  ELSE {"x"}

OtherMaps ==
  UNION { {m \in [S -> {"Mozilla/5.0", PROXY_USER_AGENT, "Bot token",
                        "application/json", "x"}] :
             \A n \in S : m[n] \in HeaderValues(n)} :
          S \in {T \in SUBSET OTHER_HEADERS : Cardinality(T) <= MaxHeaders} }

\* req.headers, as Node delivers it: lower-case names.
HeaderMaps == {o @@ a @@ m : o \in OriginMaps, a \in RequestedHeadersMaps,
                             m \in OtherMaps}

\* req.url values: the request targets a client may send.
URL_NO_QUERY     == <<"/","p","r","o","x","y">>
URL_EMPTY_TARGET == <<"/","p","r","o","x","y","?","u","r","l","=">>
URL_NOT_A_URL    == <<"/","p","r","o","x","y","?","u","r","l","=","n","o","t","-","a","-","u","r","l">>
URL_FTP_TARGET   == <<"/","p","r","o","x","y","?","u","r","l","=","f","t","p",":","/","/","h","/","x">>
URL_HTTP_TARGET  == <<"/","p","r","o","x","y","?","u","r","l","=","h","t","t","p",":","/","/","h","/","x">>
URL_ENCODED_TARGET == <<"/","p","r","o","x","y","?","u","r","l","=","h","t","t","p","s","%","3","A","%","2","F","%","2","F","h","%","2","F","x">>
URL_UPPER_TARGET == <<"/","?","u","r","l","=","H","T","T","P",":","/","/","H">>
URL_NO_HOST      == <<"/","p","r","o","x","y","?","u","r","l","=","h","t","t","p",":","/","/">>
URL_UPPER_KEY    == <<"/","p","r","o","x","y","?","U","R","L","=","h","t","t","p",":","/","/","h","/","x">>
URL_CREDENTIALS  == <<"/","p","?","u","r","l","=","h","t","t","p",":","/","/","u","@","h">>
URL_DOUBLE_SLASH == <<"/","/">>
URL_DOUBLE_SLASH_QUERY == <<"/","/","?","u","r","l","=","x">>

REQUEST_URLS == { URL_NO_QUERY, URL_EMPTY_TARGET, URL_NOT_A_URL, URL_FTP_TARGET,
                  URL_HTTP_TARGET, URL_ENCODED_TARGET, URL_UPPER_TARGET,
                  URL_NO_HOST, URL_UPPER_KEY, URL_CREDENTIALS,
                  URL_DOUBLE_SLASH, URL_DOUBLE_SLASH_QUERY }

\* What the handler is called with: the request line and the headers.  The
\* body arrives later, in chunks.
InboundRequests == [method : METHODS, url : REQUEST_URLS, headers : HeaderMaps]

NoRequest == [method |-> "", url |-> <<>>, headers |-> EmptyMap]

\* The bodies a request may stream: no chunk, or chunks <<1>>, <<2>>, ...
BodyStreams == {[i \in 1..k |-> <<i>>] : k \in 0..MaxChunks}

UPSTREAM_STATUSES == {200, 403, 502}
UPSTREAM_CONTENT_TYPES == {Undefined, Defined(""), Defined("text/plain")}
UPSTREAM_BODIES == {<<>>, <<7, 8>>}

(***************************************************************************)
(* Settings persistence of the agent page (src/agent/js/settings.js)       *)
(*                                                                         *)
(* A JSON value is [t, v]: t = "str" with v the characters, t = "arr" with *)
(* v the items, t = "obj" with v the members [k, v] in order, t = "null".  *)
(* JSON text is a sequence of characters.                                  *)
(***************************************************************************)
JNull == [t |-> "null", v |-> <<>>]
JStr(chars) == [t |-> "str", v |-> chars]
JArr(items) == [t |-> "arr", v |-> items]
JObj(members) == [t |-> "obj", v |-> members]

\* {}
EmptyObject == JObj(<<>>)

\* The characters JSON.stringify writes behind a backslash.
JSON_ESCAPED == {"\"", "\\"}

\* The characters of a string as JSON.stringify writes them between the
\* quotes.
RECURSIVE JsonEscape(_)
JsonEscape(chars) ==
  IF chars = <<>> THEN <<>>
  ELSE (IF chars[1] \in JSON_ESCAPED THEN <<"\\", chars[1]>> ELSE <<chars[1]>>)
       \o JsonEscape(Tail(chars))

\* JSON.stringify of a string.
JsonQuote(chars) == <<"\"">> \o JsonEscape(chars) \o <<"\"">>

\* JSON.stringify(value), line 11.
RECURSIVE JsonText(_)
JsonText(value) ==
  LET RECURSIVE Items(_, _)
      Items(items, first) ==
        IF items = <<>> THEN <<>>
        ELSE (IF first THEN <<>> ELSE <<",">>) \o JsonText(items[1])
             \o Items(Tail(items), FALSE)
      RECURSIVE Members(_, _)
      Members(members, first) ==
        IF members = <<>> THEN <<>>
        ELSE (IF first THEN <<>> ELSE <<",">>) \o JsonQuote(members[1].k)
             \o <<":">> \o JsonText(members[1].v)
             \o Members(Tail(members), FALSE)
  IN  IF value.t = "str" THEN JsonQuote(value.v)
      ELSE IF value.t = "arr" THEN <<"[">> \o Items(value.v, TRUE) \o <<"]">>
      ELSE IF value.t = "obj" THEN <<"{">> \o Members(value.v, TRUE) \o <<"}">>
      ELSE <<"n","u","l","l">>

\* A parse that failed (JSON.parse throws a SyntaxError).
JsonFailed == [ok |-> FALSE, value |-> JNull, rest |-> <<>>]

JsonParsed(value, rest) == [ok |-> TRUE, value |-> value, rest |-> rest]

\* The characters of a string up to its closing quote; s starts behind the
\* opening quote.
RECURSIVE JsonStringBody(_, _)
JsonStringBody(s, acc) ==
  IF s = <<>> THEN JsonFailed
  ELSE IF s[1] = "\"" THEN JsonParsed(JStr(acc), Tail(s))
  ELSE IF s[1] = "\\"
  THEN IF Len(s) >= 2 /\ s[2] \in JSON_ESCAPED
       THEN JsonStringBody(SubSeq(s, 3, Len(s)), Append(acc, s[2]))
       ELSE JsonFailed
  ELSE JsonStringBody(Tail(s), Append(acc, s[1]))

\* One JSON value at the start of s: a string, an array, an object or null,
\* written without white space.
RECURSIVE JsonValue(_)
JsonValue(s) ==
  LET RECURSIVE Items(_, _)
      Items(t, acc) ==
        LET After(item) ==
              IF ~item.ok \/ item.rest = <<>> THEN JsonFailed
              ELSE IF item.rest[1] = ","
              THEN Items(Tail(item.rest), Append(acc, item.value))
              ELSE IF item.rest[1] = "]"
              THEN JsonParsed(JArr(Append(acc, item.value)), Tail(item.rest))
              ELSE JsonFailed
        IN  IF t = <<>> THEN JsonFailed
            ELSE IF t[1] = "]" /\ acc = <<>> THEN JsonParsed(JArr(<<>>), Tail(t))
            ELSE After(JsonValue(t))
      RECURSIVE Members(_, _)
      Members(t, acc) ==
        LET AfterValue(key, val) ==
              IF ~val.ok \/ val.rest = <<>> THEN JsonFailed
              ELSE IF val.rest[1] = ","
              THEN Members(Tail(val.rest), Append(acc, [k |-> key, v |-> val.value]))
              ELSE IF val.rest[1] = "}"
              THEN JsonParsed(JObj(Append(acc, [k |-> key, v |-> val.value])),
                              Tail(val.rest))
              ELSE JsonFailed
            AfterKey(key) ==
              IF ~key.ok \/ key.rest = <<>> THEN JsonFailed
              ELSE IF key.rest[1] # ":" THEN JsonFailed
              ELSE AfterValue(key.value.v, JsonValue(Tail(key.rest)))
        IN  IF t = <<>> THEN JsonFailed
            ELSE IF t[1] = "}" /\ acc = <<>> THEN JsonParsed(EmptyObject, Tail(t))
            ELSE IF t[1] # "\"" THEN JsonFailed
            ELSE AfterKey(JsonStringBody(Tail(t), <<>>))
  IN  IF s = <<>> THEN JsonFailed
      ELSE IF s[1] = "\"" THEN JsonStringBody(Tail(s), <<>>)
      ELSE IF s[1] = "[" THEN Items(Tail(s), <<>>)
      ELSE IF s[1] = "{" THEN Members(Tail(s), <<>>)
      ELSE IF StartsWith(s, <<"n","u","l","l">>)
      THEN JsonParsed(JNull, SubSeq(s, 5, Len(s)))
      ELSE JsonFailed

\* JSON.parse(text), line 5: the whole text must be one value.
JsonParse(text) ==
  LET Whole(p) == IF p.ok /\ p.rest = <<>> THEN p ELSE JsonFailed
  IN  Whole(JsonValue(text))

\* localStorage.getItem(STORAGE_KEY): null when nothing is stored.
NoItem == [present |-> FALSE, value |-> <<>>]
Item(text) == [present |-> TRUE, value |-> text]

\* loadSettings without its try/catch.
loadSettings_NoCatch(item) ==
  LET Result(p) == [threw |-> ~p.ok, value |-> p.value]
  IN  Result(JsonParse(IF item.present /\ item.value # <<>>
                       THEN item.value ELSE <<"{","}">>))

\* loadSettings(), lines 4-7: the stored text, '{}' when it is null or
\* empty, parsed; {} when the parse throws.
loadSettings(item) ==
  LET Result(p) == [threw |-> FALSE,
                    value |-> IF p.ok THEN p.value ELSE EmptyObject]
  IN  Result(JsonParse(IF item.present /\ item.value # <<>>
                       THEN item.value ELSE <<"{","}">>))

\* saveSettings(s), lines 10-12: the item stored.
saveSettings(s) == Item(JsonText(s))

\* No loadSettings call has been made since the last saveSettings.
NotLoaded == [called |-> FALSE, threw |-> FALSE, value |-> JNull]

MaxTokenLen == 2
MaxUsers == 1

\* The characters of a bot token: a letter, a quote and a backslash.
TOKEN_CHARS == {"a", "\"", "\\"}

BOT_TOKENS == UNION {[1..n -> TOKEN_CHARS] : n \in 0..MaxTokenLen}

\* The user names of the allow list: trimmed, lower-case, not empty.
USER_NAMES == {<<"a">>, <<"b","c">>, <<"\"">>}

ALLOWED_USERS == UNION {[1..n -> {JStr(u) : u \in USER_NAMES}] : n \in 0..MaxUsers}

\* The objects the save button passes to saveSettings (lines 187-196 of
\* src/proxy/server.js), and the empty object.
SETTINGS ==
  {EmptyObject} \cup
  { JObj(<< [k |-> <<"b","o","t","T","o","k","e","n">>, v |-> JStr(token)],
            [k |-> <<"a","l","l","o","w","e","d","U","s","e","r","s">>,
             v |-> JArr(users)] >>) :
      token \in BOT_TOKENS, users \in ALLOWED_USERS }

\* Stored texts that are not valid JSON; the empty text is one of them.
INVALID_JSON_TEXTS ==
  { <<>>, <<"{">>, <<"{","b","a","d">>, <<"u","n","d","e","f","i","n","e","d">>,
    <<"{","\"","a","\"",":","}">>, <<"[","\"","a","\"",",","]">>,
    <<"{","}","x">>, <<"\"","a">> }

\* What the item may hold before the page saves anything: nothing, a text
\* that is not JSON, or JSON left by an earlier visit.
INITIAL_ITEMS ==
  {NoItem} \cup {Item(text) : text \in INVALID_JSON_TEXTS}
           \cup {Item(<<"{","}">>), Item(<<"n","u","l","l">>)}

(***************************************************************************)
(* State                                                                   *)
(***************************************************************************)
VARIABLES
  running,   \* the process is alive
  pc,        \* per request: where its handler stands
  req,       \* per request: the request line and headers
  inbound,   \* per request: the body chunks received from the caller
  fetched,   \* per request: the fetch call made for it
  upstream,  \* per request: what came back from the upstream
  res,       \* per request: the response written
  attempts,  \* per request: the fetch calls that went out to the upstream
  writeHeads, \* per request: the calls of res.writeHead
  listener,  \* the server socket: binding, listening or failed
  logged,    \* the messages written with console.log and console.error
  exitCode,  \* the exit status of the process once it has ended
  storage,   \* the agent page: the localStorage item under STORAGE_KEY
  lastSaved, \* the agent page: the argument of the latest saveSettings call
  loaded     \* the agent page: what the loadSettings call just made returned

\* The variables of the agent page (src/agent/js/settings.js); the proxy
\* never touches them.
page == <<storage, lastSaved, loaded>>

vars == <<running, pc, req, inbound, fetched, upstream, res, attempts, writeHeads,
          listener, logged, exitCode, page>>

ProxyInit ==
  /\ running = TRUE
  /\ pc = [r \in Requests |-> "idle"]
  /\ req = [r \in Requests |-> NoRequest]
  /\ inbound = [r \in Requests |-> <<>>]
  /\ fetched = [r \in Requests |-> NoFetch]
  /\ upstream = [r \in Requests |-> NoUpstreamResponse]
  /\ res = [r \in Requests |-> NoResponse]
  /\ attempts = [r \in Requests |-> 0]
  /\ writeHeads = [r \in Requests |-> 0]
  /\ listener = "binding"
  /\ logged = {}
  /\ exitCode = Undefined

Init ==
  /\ ProxyInit
  /\ storage = NoItem
  /\ lastSaved = [present |-> FALSE, value |-> JNull]
  /\ loaded = NotLoaded

\* Lines 66-111: the handler from its start to its first await, or to the
\* response or exception that ends it earlier.  next = "rejected" is the
\* handler's promise rejecting (new URL(req.url, ...) threw at line 88).
HandlerStart(q) ==
  IF q.method = "OPTIONS"
  THEN [next |-> "responded", res |-> PreflightResponse(q)]
  ELSE IF OriginOf(q) \notin ALLOWED_ORIGINS
  THEN [next |-> "responded", res |-> OriginRejectedResponse]
  ELSE IF ~ReqUrl(q).ok
  THEN [next |-> "rejected", res |-> NoResponse]
  ELSE IF TargetMissing(q)
  THEN [next |-> "responded", res |-> MissingTargetResponse(q)]
  ELSE IF ~ParsedTarget(q).ok
  THEN [next |-> "responded", res |-> InvalidTargetResponse(q)]
  ELSE [next |-> "readBody", res |-> NoResponse]

\* Nothing catches a rejection of the async request listener: the unhandled
\* rejection ends the process.
Survives(next) == next # "rejected"

\* The exit status after a handler step: 1 when the step ended the process
\* with an unhandled rejection.
ExitAfter(next) == IF Survives(next) THEN exitCode ELSE Defined(1)

\* console.error('[proxy] upstream error:', err.message), line 150.
UPSTREAM_ERROR_LOG == "[proxy] upstream error:"

\* console.error('[proxy] server error:', err), line 165.
SERVER_ERROR_LOG == "[proxy] server error:"

\* The two console.log lines of the listen callback, lines 160-161.
LISTENING_LOG == {"Runbook AI CORS proxy listening on port", "Allowed origins:"}

\* Lines 159-162: the socket is bound and the listen callback runs.
Listening ==
  /\ running
  /\ listener = "binding"
  /\ listener' = "listening"
  /\ logged' = logged \cup LISTENING_LOG
  /\ UNCHANGED <<running, pc, req, inbound, fetched, upstream, res, attempts,
                 writeHeads, exitCode, page>>

\* The error handler logs the failure and the process goes on without a
\* listener.
ListenFails_LogsOnly ==
  /\ running
  /\ listener = "binding"
  /\ listener' = "failed"
  /\ logged' = logged \cup {SERVER_ERROR_LOG}
  /\ UNCHANGED <<running, pc, req, inbound, fetched, upstream, res, attempts,
                 writeHeads, exitCode, page>>

\* Lines 159, 164-167: the socket cannot be bound (the port is in use, or
\* not permitted); the server emits 'error', the handler logs it and calls
\* process.exit(1).
ListenFails ==
  /\ running
  /\ listener = "binding"
  /\ listener' = "failed"
  /\ logged' = logged \cup {SERVER_ERROR_LOG}
  /\ running' = FALSE
  /\ exitCode' = Defined(1)
  /\ UNCHANGED <<pc, req, inbound, fetched, upstream, res, attempts, writeHeads, page>>

\* The calls of res.writeHead a handler step makes: one when it ends with a
\* response, none otherwise.
Wrote(next) == IF next = "responded" THEN 1 ELSE 0

\* A request of the set Q arrives and the handler runs to its first await.
Receive(r, Q) ==
  /\ running
  /\ listener = "listening"
  /\ pc[r] = "idle"
  /\ \E q \in Q :
       LET Enter(out) ==
             /\ pc' = [pc EXCEPT ![r] = out.next]
             /\ res' = [res EXCEPT ![r] = out.res]
             /\ running' = Survives(out.next)
             /\ exitCode' = ExitAfter(out.next)
             /\ req' = [req EXCEPT ![r] = q]
             /\ writeHeads' = [writeHeads EXCEPT ![r] = @ + Wrote(out.next)]
       IN  Enter(HandlerStart(q))
  /\ UNCHANGED <<inbound, fetched, upstream, attempts, listener, logged, page>>

\* Lines 111-138: readBody resolves with the concatenated chunks, the
\* headers are sanitized and fetch is called; a refusal by fetch lands in
\* the catch of line 149.
Dispatch(q, body) ==
  LET Outcome(init, refusal) ==
        [fetched |-> [called |-> TRUE, sent |-> ~refusal.present,
                      url |-> init.url, method |-> init.method,
                      headers |-> init.headers, hasBody |-> init.hasBody,
                      body |-> init.body],
         next |-> IF refusal.present THEN "responded" ELSE "fetch",
         res  |-> IF refusal.present THEN UpstreamErrorResponse(q, refusal)
                  ELSE NoResponse]
      Call(init) == Outcome(init, FetchRefusal(ParsedTarget(q), init))
  IN  Call(FetchInit(q, body))

\* The upstream requests a fetch call issues: one unless fetch refused it.
Sent(call) == IF call.sent THEN 1 ELSE 0

BodyRead(r) ==
  /\ running
  /\ pc[r] = "readBody"
  /\ \E chunks \in BodyStreams :
       LET Resume(out) ==
             /\ fetched' = [fetched EXCEPT ![r] = out.fetched]
             /\ pc' = [pc EXCEPT ![r] = out.next]
             /\ res' = [res EXCEPT ![r] = out.res]
             /\ inbound' = [inbound EXCEPT ![r] = chunks]
             /\ attempts' = [attempts EXCEPT ![r] = @ + Sent(out.fetched)]
             /\ writeHeads' = [writeHeads EXCEPT ![r] = @ + Wrote(out.next)]
             /\ logged' = IF out.next = "responded"
                          THEN logged \cup {UPSTREAM_ERROR_LOG} ELSE logged
       IN  Resume(Dispatch(req[r], BufferConcat(chunks)))
  /\ UNCHANGED <<running, req, upstream, listener, exitCode, page>>

\* Line 111: the request stream fails while the body is read; the await is
\* outside the try, so the handler's promise rejects.
BodyReadFails(r) ==
  /\ running
  /\ pc[r] = "readBody"
  /\ pc' = [pc EXCEPT ![r] = "rejected"]
  /\ running' = Survives("rejected")
  /\ exitCode' = ExitAfter("rejected")
  /\ UNCHANGED <<req, inbound, fetched, upstream, res, attempts, writeHeads,
                 listener, logged, page>>

\* Line 134: fetch resolves with the upstream's status and headers.
FetchResolves(r) ==
  /\ running
  /\ pc[r] = "fetch"
  /\ \E status \in UPSTREAM_STATUSES, contentType \in UPSTREAM_CONTENT_TYPES :
       upstream' = [upstream EXCEPT ![r].status = status,
                                    ![r].contentType = contentType]
  /\ pc' = [pc EXCEPT ![r] = "arrayBuffer"]
  /\ UNCHANGED <<running, req, inbound, fetched, res, attempts, writeHeads,
                 listener, logged, exitCode, page>>

\* The catch calls fetch again instead of answering.
FetchRejects_Retries(r) ==
  /\ running
  /\ pc[r] = "fetch"
  /\ attempts[r] < 3
  /\ attempts' = [attempts EXCEPT ![r] = @ + 1]
  /\ UNCHANGED <<running, pc, req, inbound, fetched, upstream, res, writeHeads,
                 listener, logged, exitCode, page>>

\* Lines 134, 149-155: fetch rejects with a network error.
FetchRejects(r) ==
  /\ running
  /\ pc[r] = "fetch"
  /\ \E message \in FETCH_ERRORS :
       /\ upstream' = [upstream EXCEPT ![r].error = Defined(message)]
       /\ res' = [res EXCEPT ![r] = UpstreamErrorResponse(req[r], Defined(message))]
  /\ pc' = [pc EXCEPT ![r] = "responded"]
  /\ writeHeads' = [writeHeads EXCEPT ![r] = @ + 1]
  /\ logged' = logged \cup {UPSTREAM_ERROR_LOG}
  /\ UNCHANGED <<running, req, inbound, fetched, attempts, listener, exitCode, page>>

\* Lines 140-147: the upstream body has arrived and the response is relayed.
BodyRelayed(r) ==
  /\ running
  /\ pc[r] = "arrayBuffer"
  /\ \E bytes \in UPSTREAM_BODIES :
       /\ upstream' = [upstream EXCEPT ![r].body = bytes, ![r].done = TRUE]
       /\ res' = [res EXCEPT ![r] = RelayResponse(req[r], upstream[r], bytes)]
  /\ pc' = [pc EXCEPT ![r] = "responded"]
  /\ writeHeads' = [writeHeads EXCEPT ![r] = @ + 1]
  /\ UNCHANGED <<running, req, inbound, fetched, attempts, listener, logged,
                 exitCode, page>>

\* Lines 140, 149-155: reading the upstream body fails.
UpstreamBodyFails(r) ==
  /\ running
  /\ pc[r] = "arrayBuffer"
  /\ \E message \in BODY_ERRORS :
       /\ upstream' = [upstream EXCEPT ![r].error = Defined(message)]
       /\ res' = [res EXCEPT ![r] = UpstreamErrorResponse(req[r], Defined(message))]
  /\ pc' = [pc EXCEPT ![r] = "responded"]
  /\ writeHeads' = [writeHeads EXCEPT ![r] = @ + 1]
  /\ logged' = logged \cup {UPSTREAM_ERROR_LOG}
  /\ UNCHANGED <<running, req, inbound, fetched, attempts, listener, exitCode, page>>

\* One request through the pipeline, any inbound request.
Next ==
  \/ Listening
  \/ ListenFails
  \/ Receive(1, InboundRequests)
  \/ BodyRead(1)
  \/ BodyReadFails(1)
  \/ FetchResolves(1)
  \/ FetchRejects(1)
  \/ BodyRelayed(1)
  \/ UpstreamBodyFails(1)

Spec == Init /\ [][Next]_vars

\* The requests of the concurrent runs: a POST that passes validation, a
\* request target that does not parse, a request without a url parameter
\* and a request from outside the allowlist.
CONCURRENT_REQUESTS ==
  { [method |-> "POST", url |-> URL_HTTP_TARGET,
     headers |-> ("origin" :> "https://runbookai.net") @@ ("authorization" :> "Bot token")],
    [method |-> "GET", url |-> URL_DOUBLE_SLASH,
     headers |-> ("origin" :> "https://runbookai.net")],
    [method |-> "GET", url |-> URL_NO_QUERY,
     headers |-> ("origin" :> "http://localhost:9003")],
    [method |-> "GET", url |-> URL_HTTP_TARGET,
     headers |-> ("origin" :> "https://evil.example")] }

\* Any number of requests in flight: the handlers' steps interleave at their
\* awaits.  The upstream answers 200 without a Content-Type here.
NextConc ==
  \/ Listening
  \/ ListenFails
  \/ \E r \in Requests : Receive(r, CONCURRENT_REQUESTS)
  \/ \E r \in Requests : BodyRead(r)
  \/ \E r \in Requests : BodyReadFails(r)
  \/ \E r \in Requests :
       /\ FetchResolves(r)
       /\ upstream'[r].status = 200
       /\ upstream'[r].contentType = Undefined
  \/ \E r \in Requests : FetchRejects(r)
  \/ \E r \in Requests : BodyRelayed(r)
  \/ \E r \in Requests : UpstreamBodyFails(r)

SpecConc == Init /\ [][NextConc]_vars

\* The agent page starts with whatever the item holds.
InitSettings ==
  /\ ProxyInit
  /\ storage \in INITIAL_ITEMS
  /\ lastSaved = [present |-> FALSE, value |-> JNull]
  /\ loaded = NotLoaded

\* saveSettings(s) is called, src/agent/js/settings.js lines 10-12.
SaveSettings ==
  /\ \E s \in SETTINGS :
       /\ storage' = saveSettings(s)
       /\ lastSaved' = [present |-> TRUE, value |-> s]
  /\ loaded' = NotLoaded
  /\ UNCHANGED <<running, pc, req, inbound, fetched, upstream, res, attempts,
                 writeHeads, listener, logged, exitCode>>

\* loadSettings() is called, src/agent/js/settings.js lines 4-7.
LoadSettings ==
  /\ loaded' = [called |-> TRUE] @@ loadSettings(storage)
  /\ UNCHANGED <<running, pc, req, inbound, fetched, upstream, res, attempts,
                 writeHeads, listener, logged, exitCode, storage, lastSaved>>

NextSettings ==
  \/ SaveSettings
  \/ LoadSettings

SpecSettings == InitSettings /\ [][NextSettings]_vars

(***************************************************************************)
(* Properties                                                              *)
(***************************************************************************)
\* The request's Origin header is missing or is not, as a string, one of the
\* allowlisted origins.
NotAllowlisted(q) ==
  "origin" \notin DOMAIN q.headers \/ q.headers["origin"] \notin ALLOWED_ORIGINS

\* The text of the JSON object {"error": message}.
ErrorJson(message) == <<"{", "\"", "error", "\"", ":", "\"", message, "\"", "}">>

\* The response carries header name with this value.
HasHeader(response, name, value) == HeaderGet(response.headers, name) = Defined(value)

\* C1: a request whose Origin is not an exact member of the allowlist
\* (missing, or differing by case, trailing slash, scheme or port) is
\* answered 403 whatever its method and URL: without a body for OPTIONS,
\* with the body {"error":"Origin not allowed"} for any other method.
C1_OriginRejected ==
  \A r \in Requests :
    (pc[r] # "idle" /\ NotAllowlisted(req[r])) =>
      /\ pc[r] = "responded"
      /\ res[r].status = 403
      /\ IF req[r].method = "OPTIONS"
         THEN res[r].body = NoBody
         ELSE res[r].body = TextBody(ErrorJson("Origin not allowed"))

\* C1 witness: a GET with a valid target whose Origin differs from an
\* allowlisted one only by case has been answered 403.
C1_Witness ==
  \E r \in Requests :
    /\ pc[r] = "responded"
    /\ req[r].method = "GET"
    /\ req[r].url = URL_HTTP_TARGET
    /\ HeaderGet(req[r].headers, "origin") = Defined("HTTPS://RUNBOOKAI.NET")
    /\ res[r].status = 403

\* The headers of a preflight response other than Access-Control-Allow-Headers.
PreflightFixedHeaders(r) ==
  /\ res[r].status = 204
  /\ HasHeader(res[r], "Access-Control-Allow-Origin", req[r].headers["origin"])
  /\ HasHeader(res[r], "Access-Control-Allow-Methods",
               "GET, POST, PUT, PATCH, DELETE, OPTIONS")
  /\ HasHeader(res[r], "Access-Control-Max-Age", "86400")

AnsweredPreflight(r) ==
  pc[r] = "responded" /\ req[r].method = "OPTIONS" /\ ~NotAllowlisted(req[r])

\* C2 as stated: an allowlisted OPTIONS request is answered 204 with the
\* CORS headers, Access-Control-Allow-Headers being the request's
\* Access-Control-Request-Headers verbatim whenever that header is present
\* and 'Authorization, Content-Type' only when it is absent.
C2_EchoWheneverPresent ==
  \A r \in Requests :
    AnsweredPreflight(r) =>
      /\ PreflightFixedHeaders(r)
      /\ HasHeader(res[r], "Access-Control-Allow-Headers",
           IF "access-control-request-headers" \in DOMAIN req[r].headers
           THEN req[r].headers["access-control-request-headers"]
           ELSE "Authorization, Content-Type")

\* C2 amended: an allowlisted OPTIONS request is answered 204 with the CORS
\* headers, Access-Control-Allow-Headers being the request's
\* Access-Control-Request-Headers verbatim when that header is present and
\* not empty, and 'Authorization, Content-Type' when it is absent or empty.
C2_EchoWhenNonEmpty ==
  \A r \in Requests :
    AnsweredPreflight(r) =>
      /\ PreflightFixedHeaders(r)
      /\ HasHeader(res[r], "Access-Control-Allow-Headers",
           IF /\ "access-control-request-headers" \in DOMAIN req[r].headers
              /\ req[r].headers["access-control-request-headers"] # ""
           THEN req[r].headers["access-control-request-headers"]
           ELSE "Authorization, Content-Type")

\* C2 witness: an allowlisted preflight asking for headers has been answered.
C2_Witness ==
  \E r \in Requests :
    /\ AnsweredPreflight(r)
    /\ HeaderGet(req[r].headers, "access-control-request-headers")
         = Defined("authorization, x-custom")
    /\ res[r].status = 204

\* The url query parameter of the request parses as an absolute http or
\* https URL.
ValidTarget(q) ==
  LET IsHttp(u) == u.ok /\ Protocol(u) \in HTTP_PROTOCOLS
      Present(t) == t.found /\ t.value # <<>> /\ IsHttp(ParseURL(t.value, <<>>))
  IN  Present(TargetUrl(q))

\* A request for the URL u.
RequestFor(u) == [NoRequest EXCEPT !.url = u]

\* The request URLs whose target is valid, those whose target holds
\* credentials, and the serialized target of each.
VALID_TARGET_URLS == {u \in REQUEST_URLS : ValidTarget(RequestFor(u))}
CREDENTIAL_URLS == {u \in REQUEST_URLS : ParsedTarget(RequestFor(u)).userinfo # <<>>}
TargetHref == [u \in REQUEST_URLS |-> Href(ParsedTarget(RequestFor(u)))]

HTTP_PREFIXES == { <<"h","t","t","p",":","/","/">>,
                   <<"h","t","t","p","s",":","/","/">> }

\* C3: a request is sent upstream only for a request that is not OPTIONS,
\* whose Origin is allowlisted and whose url parameter parses as an absolute
\* http(s) URL; what is sent goes to an http(s) URL.
C3_DispatchOnlyValidated ==
  \A r \in Requests :
    fetched[r].sent =>
      /\ req[r].method # "OPTIONS"
      /\ ~NotAllowlisted(req[r])
      /\ req[r].url \in VALID_TARGET_URLS
      /\ \E prefix \in HTTP_PREFIXES :
           /\ StartsWith(fetched[r].url, prefix)
           /\ Len(fetched[r].url) > Len(prefix)

\* C3 witness: a POST from an allowlisted origin has been sent upstream.
C3_Witness ==
  \E r \in Requests :
    /\ fetched[r].sent
    /\ req[r].method = "POST"
    /\ req[r].url = URL_ENCODED_TARGET
    /\ pc[r] = "fetch"

\* The name/value pairs of the query string the request URL is written with.
RawQueryPairs(q) ==
  LET Of(query) == IF query.present THEN ParseQuery(query.text) ELSE <<>>
  IN  Of(QueryOf(q.url))

\* The values of the url parameters the request URL is written with.
RawTargets(q) ==
  LET Values(pairs) == {pairs[i].value : i \in {j \in DOMAIN pairs : pairs[j].name = URL_PARAM}}
  IN  Values(RawQueryPairs(q))

\* The response carries the CORS headers of a non-preflight response.
HasCors(r) ==
  /\ HasHeader(res[r], "Access-Control-Allow-Origin", req[r].headers["origin"])
  /\ HasHeader(res[r], "Access-Control-Allow-Methods",
               "GET, POST, PUT, PATCH, DELETE, OPTIONS")
  /\ HasHeader(res[r], "Access-Control-Allow-Headers", "Authorization, Content-Type")
  /\ HasHeader(res[r], "Access-Control-Max-Age", "86400")

\* A request the handler was called with, not OPTIONS, from an allowlisted
\* origin.
Authorized(r) ==
  pc[r] # "idle" /\ req[r].method # "OPTIONS" /\ ~NotAllowlisted(req[r])

\* C4 as stated: a non-OPTIONS request from an allowlisted origin whose
\* request URL carries no url query parameter is answered 400 with the body
\* {"error":"Missing ?url= parameter"} and the CORS headers.
C4_MissingTarget ==
  \A r \in Requests :
    (Authorized(r) /\ RawTargets(req[r]) = {}) =>
      /\ pc[r] = "responded"
      /\ res[r].status = 400
      /\ res[r].body = TextBody(ErrorJson("Missing ?url= parameter"))
      /\ HasCors(r)

\* The value is a non-empty string that does not parse as an absolute URL
\* or parses with a scheme other than http/https.
InvalidTargetValue(value) ==
  LET NotHttp(u) == ~u.ok \/ Protocol(u) \notin HTTP_PROTOCOLS
  IN  value # <<>> /\ NotHttp(ParseURL(value, <<>>))

\* C5 as stated: a non-OPTIONS request from an allowlisted origin whose url
\* query parameter is a non-empty string that is no absolute http(s) URL is
\* answered 400 with the body {"error":"Invalid target URL"} and the CORS
\* headers.
C5_InvalidTarget ==
  \A r \in Requests :
    (Authorized(r) /\ \E v \in RawTargets(req[r]) : InvalidTargetValue(v)) =>
      /\ pc[r] = "responded"
      /\ res[r].status = 400
      /\ res[r].body = TextBody(ErrorJson("Invalid target URL"))
      /\ HasCors(r)

\* The header name is hop-by-hop, browser-identity or prefixed sec-.
Classified(key) ==
  LET In(lower) == \/ lower \in HOP_BY_HOP
                   \/ lower \in BROWSER_ONLY
                   \/ StartsWith(lower, SEC_PREFIX)
  IN  In(LowerName(key))

Forwarding(r) ==
  /\ pc[r] \in {"fetch", "arrayBuffer", "responded"}
  /\ Authorized(r)
  /\ req[r].url \in VALID_TARGET_URLS

\* The fetch call carries the validated target, the original method and the
\* inbound body, or no body when the inbound body is empty.
CallMatchesRequest(r) ==
  LET Matches(body) ==
        /\ fetched[r].called
        /\ fetched[r].url = TargetHref[req[r].url]
        /\ fetched[r].method = req[r].method
        /\ IF Len(body) > 0
           THEN fetched[r].hasBody /\ fetched[r].body = body
           ELSE ~fetched[r].hasBody
  IN  Matches(BufferConcat(inbound[r]))

\* C8 as stated: for every request that passes origin and target
\* validation, whatever its method, an upstream request is issued to the
\* validated target with the original method and the inbound body (no body
\* when it is empty).
C8_AlwaysIssued ==
  \A r \in Requests :
    Forwarding(r) => (fetched[r].sent /\ CallMatchesRequest(r))

\* fetch refuses the call: GET or HEAD with a body, a forbidden method, or
\* credentials in the target.
Refused(r) ==
  \/ req[r].method \in {"GET", "HEAD"} /\ inbound[r] # <<>>
  \/ req[r].method \in {"CONNECT", "TRACE", "TRACK"}
  \/ req[r].url \in CREDENTIAL_URLS

\* What the code does where C8_AlwaysIssued fails: for every request that
\* passes origin and target validation and whose body has been read, fetch
\* is called with the validated target,
\* the original method and the inbound body (no body when it is empty); the
\* request is issued unless fetch refuses the call (GET/HEAD with a body,
\* TRACE/CONNECT/TRACK, credentials in the target), and then the answer is
\* 502.
IssuedUnlessRefused ==
  \A r \in Requests :
    Forwarding(r) =>
      /\ CallMatchesRequest(r)
      /\ fetched[r].sent <=> ~Refused(r)
      /\ ~fetched[r].sent => (pc[r] = "responded" /\ res[r].status = 502)

\* A POST with a body has been issued and its answer relayed.
PostIssuedAndRelayed ==
  \E r \in Requests :
    /\ Forwarding(r)
    /\ fetched[r].sent
    /\ req[r].method = "POST"
    /\ inbound[r] = << <<1>>, <<2>> >>
    /\ fetched[r].body = <<1, 2>>

\* The relayed response but for its Content-Type.
Relayed(r) ==
  /\ pc[r] = "responded"
  /\ res[r].status = upstream[r].status
  /\ res[r].body = BytesBody(upstream[r].body)
  /\ HasCors(r)

\* C9 as stated: when the upstream call completes with a response, the
\* proxy's response has the upstream's status and body, the CORS headers,
\* and the upstream's Content-Type when the upstream sent one,
\* 'application/json' otherwise.
C9_ContentTypeWhenSent ==
  \A r \in Requests :
    upstream[r].done =>
      /\ Relayed(r)
      /\ HasHeader(res[r], "Content-Type",
           IF upstream[r].contentType.present
           THEN upstream[r].contentType.value
           ELSE "application/json")

\* C9 amended: when the upstream call completes with a response, the
\* proxy's response has the upstream's status and body, the CORS headers,
\* and the upstream's Content-Type when the upstream sent a non-empty one,
\* 'application/json' when it sent none or an empty one.
C9_ContentTypeWhenNonEmpty ==
  \A r \in Requests :
    upstream[r].done =>
      /\ Relayed(r)
      /\ HasHeader(res[r], "Content-Type",
           IF upstream[r].contentType.present /\ upstream[r].contentType.value # ""
           THEN upstream[r].contentType.value
           ELSE "application/json")

\* C9 witness: an upstream 403 with a text/plain body has been relayed.
C9_Witness ==
  \E r \in Requests :
    /\ upstream[r].done
    /\ upstream[r].status = 403
    /\ upstream[r].contentType = Defined("text/plain")
    /\ upstream[r].body = <<7, 8>>
    /\ res[r].status = 403

\* The text of the JSON object {"error":"Upstream error","message": message}.
UpstreamErrorJson(message) ==
  <<"{", "\"", "error", "\"", ":", "\"", "Upstream error", "\"", ",",
    "\"", "message", "\"", ":", "\"", message, "\"", "}">>

\* The response is a 502 written by the proxy, not a relayed one.
OwnBadGateway(r) ==
  pc[r] = "responded" /\ res[r].status = 502 /\ ~upstream[r].done

\* A failed upstream call is answered 502 with the failure detail and the
\* CORS headers.
FailureAnswered(r) ==
  upstream[r].error.present =>
    /\ OwnBadGateway(r)
    /\ upstream[r].error.value # ""
    /\ res[r].body = TextBody(UpstreamErrorJson(upstream[r].error.value))
    /\ HasCors(r)

\* C10 as stated: an upstream call that fails on the network is answered
\* 502 with {"error":"Upstream error","message":<detail>}, the detail not
\* empty, and the CORS headers; and the proxy writes a 502 of its own only
\* then, after an upstream request was attempted.
C10_OnlyAfterAttempt ==
  \A r \in Requests :
    /\ FailureAnswered(r)
    /\ OwnBadGateway(r) => (fetched[r].sent /\ upstream[r].error.present)

\* What the code does where C10_OnlyAfterAttempt fails: an upstream call
\* that fails on the network is answered 502 with
\* {"error":"Upstream error","message":<detail>}, the detail not empty,
\* and the CORS headers; and the proxy writes a 502 of its own only after
\* fetch was called for the request: either then, or when fetch refused the
\* call before sending anything.
BadGatewayOnlyAfterFetchCall ==
  \A r \in Requests :
    /\ FailureAnswered(r)
    /\ OwnBadGateway(r) =>
         /\ fetched[r].called
         /\ upstream[r].error.present \/ ~fetched[r].sent
         /\ Len(res[r].body.text) = 17
         /\ res[r].body.text[15] # ""
         /\ res[r].body = TextBody(UpstreamErrorJson(res[r].body.text[15]))
         /\ HasCors(r)

\* fetch rejected with a network error and the 502 was written.
NetworkFailureAnswered ==
  \E r \in Requests :
    /\ upstream[r].error = Defined("fetch failed")
    /\ fetched[r].sent
    /\ res[r].status = 502

\* C11: at most one upstream attempt is made per inbound request: the
\* number of upstream requests issued for it is 0 or 1 in every state, and
\* once the upstream call has failed the 502 is written with that one
\* attempt made and no further one.
C11_SingleAttempt ==
  \A r \in Requests :
    /\ attempts[r] \in {0, 1}
    /\ attempts[r] = 1 <=> fetched[r].sent
    /\ upstream[r].error.present =>
         /\ attempts[r] = 1
         /\ pc[r] = "responded"
         /\ res[r].status = 502

\* C11 witness: the upstream call failed after its one attempt and the 502
\* was written.
C11_Witness ==
  \E r \in Requests :
    /\ upstream[r].error = Defined("fetch failed")
    /\ attempts[r] = 1
    /\ pc[r] = "responded"
    /\ res[r].status = 502

\* The response header names that begin with Access-Control-.
ACCESS_CONTROL_HEADERS ==
  { "Access-Control-Allow-Origin", "Access-Control-Allow-Methods",
    "Access-Control-Allow-Headers", "Access-Control-Max-Age",
    "Access-Control-Allow-Credentials", "Access-Control-Expose-Headers" }

\* The response written for the request carries no Access-Control-* header.
NoAccessControl(r) == DOMAIN res[r].headers \cap ACCESS_CONTROL_HEADERS = {}

\* A response has been written for the request.
Answered(r) == pc[r] = "responded"

\* Every response to an allowlisted caller carries
\* Access-Control-Allow-Origin equal to the request's own Origin.
AllowlistedGetCors(r) ==
  (Answered(r) /\ ~NotAllowlisted(req[r])) =>
    HasHeader(res[r], "Access-Control-Allow-Origin", req[r].headers["origin"])

\* C12 as stated: every response to an allowlisted caller carries
\* Access-Control-Allow-Origin equal to the request's own Origin, and no
\* 403 response carries any Access-Control-* header.
C12_No403WithCors ==
  \A r \in Requests :
    /\ AllowlistedGetCors(r)
    /\ (Answered(r) /\ res[r].status = 403) => NoAccessControl(r)

\* C12 amended: every response to an allowlisted caller carries
\* Access-Control-Allow-Origin equal to the request's own Origin, and no
\* response to a caller outside the allowlist, which is always a 403,
\* carries any Access-Control-* header; a 403 relayed from the upstream to
\* an allowlisted caller carries the CORS headers.
C12_CorsIffAllowlisted ==
  \A r \in Requests :
    /\ AllowlistedGetCors(r)
    /\ (Answered(r) /\ NotAllowlisted(req[r])) =>
         (res[r].status = 403 /\ NoAccessControl(r))
    /\ (Answered(r) /\ res[r].status = 403 /\ ~NotAllowlisted(req[r])) =>
         (upstream[r].done /\ upstream[r].status = 403 /\ ~NoAccessControl(r))

\* C12 witness: an upstream 403 has been relayed to an allowlisted caller
\* with the CORS headers.
C12_Witness ==
  \E r \in Requests :
    /\ Answered(r)
    /\ res[r].status = 403
    /\ ~NotAllowlisted(req[r])
    /\ HasHeader(res[r], "Access-Control-Allow-Origin", req[r].headers["origin"])

\* C13: when the listener fails (the port cannot be bound) the failure is
\* logged and the process has ended with a non-zero exit status; the
\* process never runs on without a listener after such a failure.
C13_ListenerFailureExits ==
  listener = "failed" =>
    /\ SERVER_ERROR_LOG \in logged
    /\ ~running
    /\ exitCode.present
    /\ exitCode.value # 0
    /\ \A r \in Requests : pc[r] = "idle"

\* C13 witness: the bind failed and the process has exited with status 1.
C13_Witness ==
  /\ listener = "failed"
  /\ ~running
  /\ exitCode = Defined(1)

\* The response is the 400 with the given error message.
BadRequest(r, message) ==
  res[r].status = 400 /\ res[r].body = TextBody(ErrorJson(message))

\* C14 as stated: the two target errors are told apart by the presence of
\* the parameter: an authorized request is answered 'Missing ?url=
\* parameter' exactly when its URL has no url query parameter, and one whose
\* url parameter is present but empty is answered 'Invalid target URL'.
C14_ToldApartByPresence ==
  \A r \in Requests :
    (Answered(r) /\ Authorized(r)) =>
      /\ BadRequest(r, "Missing ?url= parameter") <=> RawTargets(req[r]) = {}
      /\ <<>> \in RawTargets(req[r]) => BadRequest(r, "Invalid target URL")

\* The header name, lower-cased, begins with accept.
AcceptFamily(key) == StartsWith(LowerName(key), <<"a","c","c","e","p","t">>)

\* C15 as stated: the browser-identity class covers the whole accept
\* family: no inbound header whose lower-cased name begins with accept
\* (accept, accept-language, accept-encoding, accept-charset) is handed to the
\* upstream call, whatever its value.
C15_AcceptFamilyStripped ==
  \A r \in Requests :
    fetched[r].called =>
      \A k \in DOMAIN fetched[r].headers : ~AcceptFamily(k)

\* The request URL carries no url parameter, or one that is empty or is no
\* absolute http(s) URL.
MissingOrInvalidTarget(q) ==
  LET Bad(values) == values = {} \/ \E v \in values : v = <<>> \/ InvalidTargetValue(v)
  IN  Bad(RawTargets(q))

\* No stage after target validation has run for the request: its body was
\* not read and fetch was not called.
NothingAfterValidation(r) ==
  /\ inbound[r] = <<>>
  /\ ~fetched[r].called
  /\ attempts[r] = 0
  /\ upstream[r] = NoUpstreamResponse

\* A later stage has run only after the earlier ones passed: fetch is
\* called only for an authorized request with a valid target, the upstream
\* answers only a request that was sent, and the two 4xx answers of the
\* proxy come before the body is read.
StagesInOrder ==
  \A r \in Requests :
    /\ (pc[r] # "idle" /\ req[r].method # "OPTIONS" /\ NotAllowlisted(req[r])) =>
         (Answered(r) /\ res[r].status = 403 /\ NothingAfterValidation(r))
    /\ (Answered(r) /\ Authorized(r) /\ MissingOrInvalidTarget(req[r])) =>
         (res[r].status = 400 /\ NothingAfterValidation(r))
    /\ fetched[r].called =>
         (Authorized(r) /\ ~MissingOrInvalidTarget(req[r]))
    /\ (upstream[r].done \/ upstream[r].error.present) => fetched[r].sent

\* C16 as stated: the stages run in the order preflight, origin
\* authorization, target validation, body read and sanitization, dispatch,
\* relay, and the first failing stage alone determines the response: a
\* request from outside the allowlist gets 403 whatever its url, and an
\* authorized request with a missing or invalid url gets 400 without its
\* body being read or any later stage running.
C16_FirstFailingStage ==
  /\ StagesInOrder
  /\ \A r \in Requests :
       (Authorized(r) /\ MissingOrInvalidTarget(req[r])) =>
         (Answered(r) /\ res[r].status = 400 /\ NothingAfterValidation(r))

\* The handler of the request has ended, with or without a response.
HandlerEnded(r) == pc[r] \in {"responded", "rejected"}

\* C17 as stated: every request is responded exactly once: the status line
\* is never written twice, a handler that has ended has written it once,
\* also when reading the inbound body failed or the fetch call was refused,
\* and the process does not end while a request is unanswered.
C17_RespondedExactlyOnce ==
  \A r \in Requests :
    /\ writeHeads[r] \in {0, 1}
    /\ HandlerEnded(r) => (writeHeads[r] = 1 /\ res[r] # NoResponse)
    /\ (pc[r] # "idle" /\ ~running) => Answered(r)

\* The handler of the request is waiting at one of its awaits.
InFlight(r) == pc[r] \in {"readBody", "fetch", "arrayBuffer"}

\* The response the request gets when it is processed alone, given its
\* body, and the upstream's answer to it.
AloneResponse(r) ==
  LET AfterFetch(q) ==
        IF upstream[r].error.present
        THEN UpstreamErrorResponse(q, upstream[r].error)
        ELSE RelayResponse(q, upstream[r], upstream[r].body)
      AfterBody(q, out) ==
        IF out.next = "responded" THEN out.res ELSE AfterFetch(q)
      AfterStart(q, out) ==
        IF out.next = "responded" THEN out.res
        ELSE AfterBody(q, Dispatch(q, BufferConcat(inbound[r])))
  IN  AfterStart(req[r], HandlerStart(req[r]))

\* The fetch call made for the request when it is processed alone.
AloneFetch(r) ==
  LET Same(init) ==
        /\ fetched[r].url = init.url
        /\ fetched[r].method = init.method
        /\ fetched[r].headers = init.headers
        /\ fetched[r].hasBody = init.hasBody
        /\ fetched[r].body = init.body
  IN  Same(FetchInit(req[r], BufferConcat(inbound[r])))

\* Each response and each upstream request is the one its own request
\* gets when it is processed alone.
OwnInputsDecide ==
  \A r \in Requests :
    /\ Answered(r) => res[r] = AloneResponse(r)
    /\ fetched[r].called => AloneFetch(r)

\* C18 as stated: concurrent requests are independent: each response and
\* each upstream request is the one its request gets when processed alone,
\* and a request in flight goes on being processed whatever the other
\* requests do, as it does when it is alone.
C18_Independent ==
  /\ OwnInputsDecide
  /\ \A r \in Requests : InFlight(r) => running

\* The request's own I/O failed: its body stream broke off while the
\* handler was reading it.
OwnIOFailed(r) == pc[r] = "rejected" /\ ReqUrl(req[r]).ok

\* Nothing has been written for the request.
Unanswered(r) == res[r] = NoResponse /\ writeHeads[r] = 0

\* While the upstream call of a request is pending, that request has no
\* response, no 502 either: only the settling of fetch moves it on.
PendingStaysPending ==
  \A h \in Requests : pc[h] = "fetch" => (Unanswered(h) /\ ~upstream[h].error.present)

\* C19 as stated: no timeout is enforced on the upstream call: a request
\* whose upstream call is pending has no response, no 502 either, and every
\* other request received meanwhile whose own I/O has not failed has its
\* response or is still being processed.
C19_PendingHarmsNoOther ==
  /\ PendingStaysPending
  /\ \A h \in Requests : \A r \in Requests \ {h} :
       (pc[h] = "fetch" /\ pc[r] # "idle" /\ ~OwnIOFailed(r)) =>
         (Answered(r) \/ (InFlight(r) /\ running))

\* C20: settings persistence round-trips and does not throw: a loadSettings
\* call made after saveSettings calls returns an object equal to the
\* argument of the latest one, and a loadSettings call made when nothing was
\* ever stored, or when the stored text is not valid JSON, returns the empty
\* object; loadSettings never throws.
C20_SettingsRoundTrip ==
  loaded.called =>
    /\ ~loaded.threw
    /\ lastSaved.present => loaded.value = lastSaved.value
    /\ (~lastSaved.present /\
         (~storage.present \/ storage.value \in INVALID_JSON_TEXTS)) =>
           loaded.value = EmptyObject

\* C20 witness: settings with a quote in the bot token and one allowed
\* user were saved and have been loaded back.
C20_Witness ==
  /\ loaded.called
  /\ lastSaved.present
  /\ lastSaved.value # EmptyObject
  /\ lastSaved.value.v[1].v = JStr(<<"a", "\"">>)
  /\ Len(lastSaved.value.v[2].v.v) = 1
  /\ loaded.value = lastSaved.value

=============================================================================
